---- MODULE Spec2Model ----
(***************************************************************************)
(* A model of the iron-vault core: the Vault lifecycle (create, open,      *)
(* add_record) of src/core/vault.rs over the encrypted storage of          *)
(* src/core/storage.rs and the key operations of src/core/keys.rs.         *)
(*                                                                         *)
(* Bytes are the integers 0..255, files are byte sequences.  The ring      *)
(* primitives (PBKDF2, CHACHA20-POLY1305) and serde_json are libraries     *)
(* outside the repository; they are modelled by small concrete functions   *)
(* that keep what the callers rely on: the envelope nonce ++ ciphertext ++ *)
(* tag with its lengths, a tag that depends on the key, the nonce and      *)
(* every ciphertext byte, and a JSON text that has to be parsed back.      *)
(***************************************************************************)
EXTENDS Integers, Sequences, FiniteSets, TLC

VARIABLES
    disk,      \* the vault directory: does it exist, and its three files
    vault,     \* the Vault instances held by the caller (one per handle)
    result,    \* what the last call did and how it ended
    hist       \* history: who wrote the files last (used only by the properties)

vars == <<disk, vault, result, hist>>

(***************************************************************************)
(* Program constants.                                                      *)
(***************************************************************************)
KEY_LEN == 32
NONCE_LEN == 12
TAG_LEN == 16
SALT_LEN == 16
ITERATIONS_BASE_COUNT == 100000
ITERATIONS_EXTENSION_COUNT == 10000
Limb == 65536
ByteMod == 256
MinSaltLen == 4

(***************************************************************************)
(* Bounds of the model.                                                    *)
(***************************************************************************)
MaxRecords == 2

(***************************************************************************)
(* Result<T, E> and panics.  A call ends "Ok" with a value, "Err" with an  *)
(* error value handed to the caller, or "Panic": the thread unwinds and    *)
(* the caller gets no value at all.                                        *)
(***************************************************************************)
NoError == [kind |-> "none", cause |-> "none"]

Ok(v) == [tag |-> "Ok", val |-> v, err |-> NoError]

Err(e) == [tag |-> "Err", val |-> <<>>, err |-> e]

Panic(msg) == [tag |-> "Panic", val |-> <<>>, err |-> [kind |-> "panic", cause |-> msg]]

StorageError(kind) == [kind |-> kind, cause |-> "none"]

KeyError(kind) == [kind |-> kind, cause |-> "none"]

\* From<encrypted_storage::StorageError> for VaultError
VaultStorageError(e) == [kind |-> "VaultStorageError", cause |-> e.kind]

\* From<keys::KeyError> for VaultError
VaultKeyError(e) == [kind |-> "KeyError", cause |-> e.kind]

\* From<io::Error> for VaultError
ConfigurationFileError(io) == [kind |-> "ConfigurationFileError", cause |-> io]

\* From<serde_json::Error> for VaultError
ConfigurationSerializationError == [kind |-> "ConfigurationSerializationError", cause |-> "serde_json"]

VaultAlreadyExists == [kind |-> "VaultAlreadyExists", cause |-> "none"]

VaultGenerationError == [kind |-> "VaultGenerationError", cause |-> "none"]

(***************************************************************************)
(* Byte sequences.                                                         *)
(***************************************************************************)
RECURSIVE SumTo(_, _)
SumTo(s, n) == IF n = 0 THEN 0 ELSE s[n] + SumTo(s, n - 1)

SumSeq(s) == SumTo(s, Len(s))

Zeros(n) == [i \in 1..n |-> 0]

Take(s, n) == SubSeq(s, 1, n)

Drop(s, n) == SubSeq(s, n + 1, Len(s))

(***************************************************************************)
(* keys.rs                                                                 *)
(*                                                                         *)
(* A passphrase is its text together with the 64-bit value that the        *)
(* standard library's DefaultHasher yields for it: the hasher is not       *)
(* repository code, so its value is an input that goes with the text.      *)
(* TLC's integers have 32 bits, so a 64-bit value is four 16-bit limbs     *)
(* w3 w2 w1 w0 and a u32 is the pair of limbs hi lo.                       *)
(***************************************************************************)
DefaultHasher(password) == password.hash

\* hasher.finish() as u32
AsU32(h) == [hi |-> h.w1, lo |-> h.w0]

\* hash % ITERATIONS_EXTENSION_COUNT with the % left out.
ModU32_left_out(u, m) == u.lo

\* u32 % m, for m below 2^15
ModU32(u, m) == ((u.hi % m) * (Limb % m) + u.lo) % m

\* What a u32 holds of a sum of two numbers below 2^31.
WrapU32(x) == x - ((x \div Limb) \div Limb) * Limb * Limb

iterations(password) ==
    LET hash == AsU32(DefaultHasher(password))
        iteration_extensions == ModU32(hash, ITERATIONS_EXTENSION_COUNT)
        its == WrapU32(ITERATIONS_BASE_COUNT + iteration_extensions)
    IN  IF its > ITERATIONS_BASE_COUNT
        THEN Ok(its)
        ELSE Panic("assertion failed: iterations > ITERATIONS_BASE_COUNT")

\* ring::pbkdf2::derive, as a function that keeps apart the passphrases, the
\* iteration counts and the salts of the model.
pbkdf2_derive(its, salt, secret, out_len) ==
    [i \in 1..out_len |->
        CASE i = 1 -> SumSeq(secret) % ByteMod
          [] i = 2 -> its % ByteMod
          [] i = 3 -> (its \div ByteMod) % ByteMod
          [] OTHER -> salt[((i - 1) % Len(salt)) + 1]]

derive_key(salt, password) ==
    IF Len(salt) <= MinSaltLen
    THEN Err(KeyError("SaltLengthError"))
    ELSE LET it == iterations(password)
         IN  IF it.tag = "Panic"
             THEN it
             ELSE Ok(pbkdf2_derive(it.val, salt, password.text, KEY_LEN))

\* random.fill(&mut buf): `fill` is what the system random source does with a
\* buffer of the asked length: it fails, or it yields the bytes fill.bytes.
generate_key(fill) ==
    IF fill.ok THEN Ok(fill.bytes) ELSE Err(KeyError("KeyGenerationError"))

generate_salt(fill) ==
    IF fill.ok THEN Ok(fill.bytes) ELSE Err(KeyError("SaltGenerationError"))

(***************************************************************************)
(* storage.rs: sealing and opening.                                        *)
(***************************************************************************)
\* verify_key_len that only refuses keys that are too short.
verify_key_len_at_least(key) ==
    IF KEY_LEN > Len(key) THEN Err(StorageError("KeyLengthError")) ELSE Ok(<<>>)

verify_key_len(key) ==
    IF KEY_LEN # Len(key) THEN Err(StorageError("KeyLengthError")) ELSE Ok(<<>>)

\* generate_nonce that returns the zeroed buffer without filling it.
generate_nonce_unfilled(fill) ==
    IF fill.ok THEN Ok(Zeros(NONCE_LEN)) ELSE Err(StorageError("NonceGenerationError"))

generate_nonce(fill) ==
    IF fill.ok THEN Ok(fill.bytes) ELSE Err(StorageError("NonceGenerationError"))

\* append_tag_storage whose loop stops one byte early.
append_tag_storage_short(plaintext) == plaintext \o Zeros(TAG_LEN - 1)

append_tag_storage(plaintext) == plaintext \o Zeros(TAG_LEN)

\* The cipher and the authenticator of ring::aead: a key stream that depends
\* on the key, the nonce and the position, and a tag that depends on the key,
\* the nonce and every byte of the ciphertext.
KeyStreamBase(key, nonce) == (SumSeq(key) + SumSeq(nonce)) % ByteMod

AeadTag(key, nonce, ct) ==
    LET base == (SumSeq(nonce) + SumSeq(ct)) % ByteMod
    IN  [j \in 1..TAG_LEN |-> (key[j] + key[KEY_LEN + 1 - j] + base + j) % ByteMod]

\* aead::seal_in_place: the buffer holds the plaintext and tag_len spare bytes;
\* the plaintext is encrypted in place and the tag written after it.
seal_in_place(key, nonce, in_out, tag_len) ==
    LET n  == Len(in_out) - tag_len
        ks == KeyStreamBase(key, nonce)
        ct == [i \in 1..n |-> (in_out[i] + ks + i) % ByteMod]
    IN  IF n < 0 THEN Err(StorageError("EncryptionError"))
        ELSE Ok(ct \o AeadTag(key, nonce, ct))

\* aead::open_in_place: the ciphertext and tag follow in_prefix_len bytes.
open_in_place(key, nonce, in_prefix_len, in_out) ==
    LET body == Drop(in_out, in_prefix_len)
        n    == Len(body) - TAG_LEN
        ct   == Take(body, n)
        tag  == Drop(body, n)
        ks   == KeyStreamBase(key, nonce)
    IN  IF n < 0 THEN Err(StorageError("DecryptionError"))
        ELSE IF tag # AeadTag(key, nonce, ct) THEN Err(StorageError("DecryptionError"))
        ELSE Ok([i \in 1..n |-> (ct[i] + 2 * ByteMod - ks - i) % ByteMod])

seal_data(data, key, fill) ==
    LET checked == verify_key_len(key)
        nonce   == generate_nonce(fill)
    IN  IF checked.tag # "Ok" THEN checked
        ELSE IF nonce.tag # "Ok" THEN nonce
        ELSE LET sealed == seal_in_place(key, nonce.val, append_tag_storage(data), TAG_LEN)
             IN  IF sealed.tag # "Ok" THEN sealed
                 ELSE Ok(nonce.val \o sealed.val)

\* open_data that hands open_in_place a prefix length of 0.
open_data_no_prefix(data, key) ==
    LET checked == verify_key_len(key)
    IN  IF checked.tag # "Ok" THEN checked
        ELSE IF Len(data) < NONCE_LEN THEN Panic("slice index out of range")
        ELSE open_in_place(key, Take(data, NONCE_LEN), 0, data)

\* open_data that maps the failure of open_in_place to KeyError.
open_data_key_error(data, key) ==
    LET checked == verify_key_len(key)
    IN  IF checked.tag # "Ok" THEN checked
        ELSE IF Len(data) < NONCE_LEN THEN Panic("slice index out of range")
        ELSE LET opened == open_in_place(key, Take(data, NONCE_LEN), NONCE_LEN, data)
             IN  IF opened.tag # "Ok" THEN Err(StorageError("KeyError")) ELSE opened

\* data[..nonce_len] panics when the data is shorter than a nonce.
open_data(data, key) ==
    LET checked == verify_key_len(key)
    IN  IF checked.tag # "Ok" THEN checked
        ELSE IF Len(data) < NONCE_LEN THEN Panic("slice index out of range")
        ELSE open_in_place(key, Take(data, NONCE_LEN), NONCE_LEN, data)

(***************************************************************************)
(* storage.rs: files.  A file is absent, or it holds bytes.                *)
(***************************************************************************)
NoFile == [exists |-> FALSE, bytes |-> <<>>]

FileOf(bytes) == [exists |-> TRUE, bytes |-> bytes]

read_plaintext(dir, file) ==
    IF ~dir \/ ~file.exists THEN Err(StorageError("FileError")) ELSE Ok(file.bytes)

read_encrypted(dir, file, key) ==
    LET raw == read_plaintext(dir, file)
    IN  IF raw.tag # "Ok" THEN raw ELSE open_data(raw.val, key)

\* fs::File::create makes the file, or empties the one that is there; it fails
\* when the directory is missing or the system refuses (io = "create").
\* write_all can fail after that (io = "write") and leaves the file empty.
write_plaintext(dir, file, buf, io) ==
    IF ~dir \/ io = "create"
    THEN [res |-> Err(StorageError("FileError")), file |-> file]
    ELSE IF io = "write"
    THEN [res |-> Err(StorageError("FileError")), file |-> FileOf(<<>>)]
    ELSE [res |-> Ok(<<>>), file |-> FileOf(buf)]

write_encrypted(dir, file, buf, key, fill, io) ==
    LET ciphertext == seal_data(buf, key, fill)
    IN  IF ciphertext.tag # "Ok"
        THEN [res |-> ciphertext, file |-> file]
        ELSE write_plaintext(dir, file, ciphertext.val, io)

\* encrypted_storage.rs, whose open_data and seal_data are line for line those
\* of storage.rs: read_encrypted opens and reads the file, then opens the data.
encrypted_storage_read_encrypted(dir, file, key) ==
    IF ~dir \/ ~file.exists THEN Err(StorageError("FileError"))
    ELSE open_data(file.bytes, key)

\* encrypted_storage.rs: write_encrypted calls fs::File::create first, then
\* seals the data, then writes the sealed bytes into the created file.
encrypted_storage_write_encrypted(dir, file, buf, key, fill, io) ==
    LET ciphertext == seal_data(buf, key, fill)
    IN  IF ~dir \/ io = "create"
        THEN [res |-> Err(StorageError("FileError")), file |-> file]
        ELSE IF ciphertext.tag # "Ok"
        THEN [res |-> ciphertext, file |-> FileOf(<<>>)]
        ELSE IF io = "write"
        THEN [res |-> Err(StorageError("FileError")), file |-> FileOf(<<>>)]
        ELSE [res |-> Ok(<<>>), file |-> FileOf(ciphertext.val)]

\* String::from_utf8, on the bytes the model uses: ASCII, or a lone byte
\* above 127, which is no UTF-8.
from_utf8(bytes) ==
    IF \A i \in 1..Len(bytes) : bytes[i] < 128
    THEN Ok(bytes)
    ELSE Err([kind |-> "StringError", cause |-> "FromUtf8Error"])

\* read_string with String::from_utf8_lossy, which never fails.
read_string_lossy(dir, file, key) == read_encrypted(dir, file, key)

read_string(dir, file, key) ==
    LET plaintext == read_encrypted(dir, file, key)
    IN  IF plaintext.tag # "Ok" THEN plaintext ELSE from_utf8(plaintext.val)

\* Storage::read_string of a PlaintextStorage
PlaintextStorage_read_string(dir, file) ==
    LET plaintext == read_plaintext(dir, file)
    IN  IF plaintext.tag # "Ok" THEN plaintext ELSE from_utf8(plaintext.val)

write_string(dir, file, data, key, fill, io) ==
    write_encrypted(dir, file, data, key, fill, io)

(***************************************************************************)
(* record.rs and serde_json.  A record has a uuid, a name, a kind and the  *)
(* entries table; uuids, names and entry values are small numbers that     *)
(* stand for the strings.  The JSON text of a list of records is           *)
(*   [ {uuid name kind username password} , ... ]                          *)
(* written with one byte per token, and has to be parsed back.             *)
(***************************************************************************)
Record(uuid, name, username, password) ==
    [uuid |-> uuid, name |-> name, kind |-> "Login",
     entries |-> [username |-> username, password |-> password]]

IsDigit(b) == b >= 48 /\ b <= 57

record_to_json(r) ==
    <<123, 48 + r.uuid, 48 + r.name, 76, 48 + r.entries.username,
      48 + r.entries.password, 125>>

RECURSIVE records_to_json(_)
records_to_json(records) ==
    IF records = <<>> THEN <<>>
    ELSE IF Len(records) = 1 THEN record_to_json(records[1])
    ELSE record_to_json(records[1]) \o <<44>> \o records_to_json(Tail(records))

\* serde_json::to_string(&Vec<Record>)
to_string(records) == <<91>> \o records_to_json(records) \o <<93>>

record_from_json(s) ==
    IF /\ Len(s) = 7
       /\ s[1] = 123 /\ s[7] = 125 /\ s[4] = 76
       /\ IsDigit(s[2]) /\ IsDigit(s[3]) /\ IsDigit(s[5]) /\ IsDigit(s[6])
    THEN Ok(Record(s[2] - 48, s[3] - 48, s[5] - 48, s[6] - 48))
    ELSE Err(StorageError("SerializationError"))

RECURSIVE records_from_json(_)
records_from_json(s) ==
    LET first == record_from_json(Take(s, 7))
    IN  IF first.tag # "Ok" THEN first
        ELSE IF Len(s) = 7 THEN Ok(<<first.val>>)
        ELSE IF s[8] # 44 THEN Err(StorageError("SerializationError"))
        ELSE LET rest == records_from_json(Drop(s, 8))
             IN  IF rest.tag # "Ok" THEN rest ELSE Ok(<<first.val>> \o rest.val)

\* serde_json::from_str::<Vec<Record>>
from_str(s) ==
    IF Len(s) < 2 \/ s[1] # 91 \/ s[Len(s)] # 93
    THEN Err(StorageError("SerializationError"))
    ELSE IF Len(s) = 2 THEN Ok(<<>>)
    ELSE records_from_json(SubSeq(s, 2, Len(s) - 1))

\* Storage::read_object::<Vec<Record>> of an EncryptedStorage
read_object(dir, file, key) ==
    LET json == read_string(dir, file, key)
    IN  IF json.tag # "Ok" THEN json ELSE from_str(json.val)

\* Storage::read_object::<Vec<Record>> of a PlaintextStorage
PlaintextStorage_read_object(dir, file) ==
    LET json == PlaintextStorage_read_string(dir, file)
    IN  IF json.tag # "Ok" THEN json ELSE from_str(json.val)

(***************************************************************************)
(* vault.rs: Configuration.  The config file is the JSON text of the salt. *)
(***************************************************************************)
\* serde_json writes the salt as decimal text; here each byte becomes two
\* ASCII characters.
RECURSIVE salt_to_json(_)
salt_to_json(salt) ==
    IF salt = <<>> THEN <<>>
    ELSE <<48 + (Head(salt) \div 16), 48 + (Head(salt) % 16)>> \o salt_to_json(Tail(salt))

RECURSIVE salt_from_json(_)
salt_from_json(s) ==
    IF s = <<>> THEN Ok(<<>>)
    ELSE IF Len(s) < 2 \/ s[1] < 48 \/ s[1] > 63 \/ s[2] < 48 \/ s[2] > 63
    THEN Err(ConfigurationSerializationError)
    ELSE LET rest == salt_from_json(Drop(s, 2))
         IN  IF rest.tag # "Ok" THEN rest
             ELSE Ok(<<(s[1] - 48) * 16 + (s[2] - 48)>> \o rest.val)

\* Configuration::to_json: {"salt":[...]}
Configuration_to_json(config) == <<123>> \o salt_to_json(config.salt) \o <<125>>

\* Configuration::from_json
Configuration_from_json(json) ==
    IF Len(json) < 2 \/ json[1] # 123 \/ json[Len(json)] # 125
    THEN Err(ConfigurationSerializationError)
    ELSE LET salt == salt_from_json(SubSeq(json, 2, Len(json) - 1))
         IN  IF salt.tag # "Ok" THEN salt ELSE Ok([salt |-> salt.val])

\* Configuration::save_to: File::create, to_json, write_all, each with `?`
Configuration_save_to(dir, file, config, io) ==
    LET w == write_plaintext(dir, file, Configuration_to_json(config), io)
    IN  IF w.res.tag # "Ok"
        THEN [res |-> Err(ConfigurationFileError("io")), file |-> w.file]
        ELSE w

\* Configuration::from_file with expect in place of `?`.
Configuration_from_file_expect(dir, file) ==
    IF ~dir \/ ~file.exists
    THEN Panic("Opened the configuration file")
    ELSE IF from_utf8(file.bytes).tag # "Ok"
    THEN Panic("Read the configuration file")
    ELSE Configuration_from_json(file.bytes)

\* Configuration::from_file: File::open and read_to_string with `?`, from_json
Configuration_from_file(dir, file) ==
    IF ~dir \/ ~file.exists
    THEN Err(ConfigurationFileError("io"))
    ELSE IF from_utf8(file.bytes).tag # "Ok"
    THEN Err(ConfigurationFileError("io"))
    ELSE Configuration_from_json(file.bytes)

\* vault.rs: the queries
fetch_records(v) == v.records

\* get_records_by_name with find in place of filter.
get_records_by_name_find(v, record_name) ==
    LET found == SelectSeq(v.records, LAMBDA record : record.name = record_name)
    IN  IF found = <<>> THEN <<>> ELSE <<found[1]>>

get_records_by_name(v, record_name) ==
    SelectSeq(v.records, LAMBDA record : record.name = record_name)

\* iter().find: the first record with the uuid, or None
get_record_by_uuid(v, record_uuid) ==
    LET found == SelectSeq(v.records, LAMBDA record : record.uuid = record_uuid)
    IN  IF found = <<>> THEN <<>> ELSE <<found[1]>>

(***************************************************************************)
(* vault.rs: Vault.  The environment of a call (`env`) says which step, if *)
(* any, the system fails (a random source or a file operation that returns *)
(* an error) and what the random source yields where it does not fail.     *)
(***************************************************************************)
NoVault ==
    [open |-> FALSE, configuration |-> [salt |-> <<>>],
     record_storage |-> [key |-> <<>>], key_storage |-> [key |-> <<>>],
     records |-> <<>>]

FailFill == [ok |-> FALSE, bytes |-> <<>>]

Fill(env, step, bytes) ==
    IF env.fault = step THEN FailFill ELSE [ok |-> TRUE, bytes |-> bytes]

Io(env, create_step, write_step) ==
    IF env.fault = create_step THEN "create"
    ELSE IF env.fault = write_step THEN "write"
    ELSE "none"

\* create_vault_directory without the test for an existing path.
create_vault_directory_unchecked(d, env) ==
    IF env.fault = "mkdir" THEN [res |-> Err(VaultGenerationError), disk |-> d]
    ELSE [res |-> Ok(<<>>), disk |-> [d EXCEPT !.dir = TRUE]]

create_vault_directory(d, env) ==
    IF d.dir THEN [res |-> Err(VaultAlreadyExists), disk |-> d]
    ELSE IF env.fault = "mkdir" THEN [res |-> Err(VaultGenerationError), disk |-> d]
    ELSE [res |-> Ok(<<>>), disk |-> [d EXCEPT !.dir = TRUE]]

create_vault_configuration(fill) ==
    LET salt == generate_salt(fill)
    IN  IF salt.tag # "Ok" THEN Err(VaultKeyError(salt.err))
        ELSE Ok([salt |-> salt.val])

\* Lifts the error of a key or storage call the way `?` does in Vault.
FromKey(r) == IF r.tag = "Err" THEN Err(VaultKeyError(r.err)) ELSE r

FromStorage(r) == IF r.tag = "Err" THEN Err(VaultStorageError(r.err)) ELSE r

\* .expect(msg): an Err becomes a panic.
Expect(r, msg) == IF r.tag = "Err" THEN Panic(msg) ELSE r

\* Vault::create with a PlaintextStorage for the key file.
Vault_create_plaintext_key(d, password, env) ==
    LET made == create_vault_directory(d, env)
        d1 == made.disk
        config == create_vault_configuration(Fill(env, "salt_rng", env.salt))
        saved == Configuration_save_to(d1.dir, d1.config, config.val, Io(env, "config_create", "config_write"))
        d2 == [d1 EXCEPT !.config = saved.file]
        password_key == FromKey(derive_key(config.val.salt, password))
        encryption_key == FromKey(generate_key(Fill(env, "key_rng", env.key)))
        wrapped == write_plaintext(d2.dir, d2.key, encryption_key.val,
                                   Io(env, "key_create", "key_write"))
        d3 == [d2 EXCEPT !.key = wrapped.file]
        records == <<>>
        json == to_string(records)
        stored == write_encrypted(d3.dir, d3.storage, json, encryption_key.val,
                                  Fill(env, "storage_nonce", env.nonce2), Io(env, "storage_create", "storage_write"))
        d4 == [d3 EXCEPT !.storage = stored.file]
    IN  IF made.res.tag # "Ok" THEN [res |-> made.res, disk |-> d1]
        ELSE IF config.tag # "Ok" THEN [res |-> config, disk |-> d1]
        ELSE IF saved.res.tag # "Ok" THEN [res |-> saved.res, disk |-> d2]
        ELSE IF password_key.tag # "Ok" THEN [res |-> password_key, disk |-> d2]
        ELSE IF encryption_key.tag # "Ok" THEN [res |-> encryption_key, disk |-> d2]
        ELSE IF wrapped.res.tag # "Ok" THEN [res |-> FromStorage(wrapped.res), disk |-> d3]
        ELSE IF stored.res.tag # "Ok" THEN [res |-> FromStorage(stored.res), disk |-> d4]
        ELSE [res |-> Ok([open |-> TRUE, configuration |-> config.val,
                          record_storage |-> [key |-> encryption_key.val],
                          key_storage |-> [key |-> password_key.val],
                          records |-> records]),
              disk |-> d4]

\* Vault::create writing the storage file before the key file.
Vault_create_storage_first(d, password, env) ==
    LET made == create_vault_directory(d, env)
        d1 == made.disk
        config == create_vault_configuration(Fill(env, "salt_rng", env.salt))
        saved == Configuration_save_to(d1.dir, d1.config, config.val, Io(env, "config_create", "config_write"))
        d2 == [d1 EXCEPT !.config = saved.file]
        password_key == FromKey(derive_key(config.val.salt, password))
        encryption_key == FromKey(generate_key(Fill(env, "key_rng", env.key)))
        records == <<>>
        json == to_string(records)
        stored == write_encrypted(d2.dir, d2.storage, json, encryption_key.val,
                                  Fill(env, "storage_nonce", env.nonce2), Io(env, "storage_create", "storage_write"))
        d3 == [d2 EXCEPT !.storage = stored.file]
        wrapped == write_encrypted(d3.dir, d3.key, encryption_key.val, password_key.val,
                                   Fill(env, "key_nonce", env.nonce1), Io(env, "key_create", "key_write"))
        d4 == [d3 EXCEPT !.key = wrapped.file]
    IN  IF made.res.tag # "Ok" THEN [res |-> made.res, disk |-> d1]
        ELSE IF config.tag # "Ok" THEN [res |-> config, disk |-> d1]
        ELSE IF saved.res.tag # "Ok" THEN [res |-> saved.res, disk |-> d2]
        ELSE IF password_key.tag # "Ok" THEN [res |-> password_key, disk |-> d2]
        ELSE IF encryption_key.tag # "Ok" THEN [res |-> encryption_key, disk |-> d2]
        ELSE IF stored.res.tag # "Ok" THEN [res |-> FromStorage(stored.res), disk |-> d3]
        ELSE IF wrapped.res.tag # "Ok" THEN [res |-> FromStorage(wrapped.res), disk |-> d4]
        ELSE [res |-> Ok([open |-> TRUE, configuration |-> config.val,
                          record_storage |-> [key |-> encryption_key.val],
                          key_storage |-> [key |-> password_key.val],
                          records |-> records]),
              disk |-> d4]

Vault_create(d, password, env) ==
    LET made == create_vault_directory(d, env)
        d1 == made.disk
        config == create_vault_configuration(Fill(env, "salt_rng", env.salt))
        saved == Configuration_save_to(d1.dir, d1.config, config.val, Io(env, "config_create", "config_write"))
        d2 == [d1 EXCEPT !.config = saved.file]
        password_key == FromKey(derive_key(config.val.salt, password))
        encryption_key == FromKey(generate_key(Fill(env, "key_rng", env.key)))
        wrapped == write_encrypted(d2.dir, d2.key, encryption_key.val, password_key.val,
                                   Fill(env, "key_nonce", env.nonce1), Io(env, "key_create", "key_write"))
        d3 == [d2 EXCEPT !.key = wrapped.file]
        records == <<>>
        json == to_string(records)
        stored == write_encrypted(d3.dir, d3.storage, json, encryption_key.val,
                                  Fill(env, "storage_nonce", env.nonce2), Io(env, "storage_create", "storage_write"))
        d4 == [d3 EXCEPT !.storage = stored.file]
    IN  IF made.res.tag # "Ok" THEN [res |-> made.res, disk |-> d1]
        ELSE IF config.tag # "Ok" THEN [res |-> config, disk |-> d1]
        ELSE IF saved.res.tag # "Ok" THEN [res |-> saved.res, disk |-> d2]
        ELSE IF password_key.tag # "Ok" THEN [res |-> password_key, disk |-> d2]
        ELSE IF encryption_key.tag # "Ok" THEN [res |-> encryption_key, disk |-> d2]
        ELSE IF wrapped.res.tag # "Ok" THEN [res |-> FromStorage(wrapped.res), disk |-> d3]
        ELSE IF stored.res.tag # "Ok" THEN [res |-> FromStorage(stored.res), disk |-> d4]
        ELSE [res |-> Ok([open |-> TRUE, configuration |-> config.val,
                          record_storage |-> [key |-> encryption_key.val],
                          key_storage |-> [key |-> password_key.val],
                          records |-> records]),
              disk |-> d4]

Vault_open(d, password) ==
    LET config == Configuration_from_file(d.dir, d.config)
        password_key == FromKey(derive_key(config.val.salt, password))
        encryption_key == Expect(read_encrypted(d.dir, d.key, password_key.val),
                                 "Should have opened DB correctly")
        record_json == Expect(read_string(d.dir, d.storage, encryption_key.val),
                              "Should have read the json")
        records == Expect(from_str(record_json.val),
                          "Should have deserialized from the json")
        opened ==
            IF config.tag # "Ok" THEN config
            ELSE IF password_key.tag # "Ok" THEN password_key
            ELSE IF encryption_key.tag # "Ok" THEN encryption_key
            ELSE IF record_json.tag # "Ok" THEN record_json
            ELSE IF records.tag # "Ok" THEN records
            ELSE Ok([open |-> TRUE, configuration |-> config.val,
                     record_storage |-> [key |-> encryption_key.val],
                     key_storage |-> [key |-> password_key.val],
                     records |-> records.val])
    IN  [res |-> opened, disk |-> d]

\* add_record writing through key_storage in place of record_storage.
Vault_add_record_into_key_storage(d, v, record, env) ==
    LET records == Append(v.records, record)
        json == to_string(records)
        written == write_string(d.dir, d.key, json, v.key_storage.key,
                                Fill(env, "storage_nonce", env.nonce2), Io(env, "storage_create", "storage_write"))
    IN  [res |-> Expect(written.res, "Should have written record_storage properly"),
         disk |-> [d EXCEPT !.key = written.file],
         vault |-> [v EXCEPT !.records = records]]

\* add_record that reads the storage file again and appends to what it holds.
Vault_add_record_reread(d, v, record, env) ==
    LET stored == read_object(d.dir, d.storage, v.record_storage.key)
        records == Append(IF stored.tag = "Ok" THEN stored.val ELSE v.records, record)
        json == to_string(records)
        written == write_string(d.dir, d.storage, json, v.record_storage.key,
                                Fill(env, "storage_nonce", env.nonce2), Io(env, "storage_create", "storage_write"))
    IN  [res |-> Expect(written.res, "Should have written record_storage properly"),
         disk |-> [d EXCEPT !.storage = written.file],
         vault |-> [v EXCEPT !.records = records]]

\* add_record that writes the collection before it pushes the record.
Vault_add_record_write_before_push(d, v, record, env) ==
    LET json == to_string(v.records)
        written == write_string(d.dir, d.storage, json, v.record_storage.key,
                                Fill(env, "storage_nonce", env.nonce2), Io(env, "storage_create", "storage_write"))
    IN  [res |-> Expect(written.res, "Should have written record_storage properly"),
         disk |-> [d EXCEPT !.storage = written.file],
         vault |-> [v EXCEPT !.records = Append(v.records, record)]]

\* add_record that puts the record in front of the collection.
Vault_add_record_prepend(d, v, record, env) ==
    LET records == <<record>> \o v.records
        json == to_string(records)
        written == write_string(d.dir, d.storage, json, v.record_storage.key,
                                Fill(env, "storage_nonce", env.nonce2), Io(env, "storage_create", "storage_write"))
    IN  [res |-> Expect(written.res, "Should have written record_storage properly"),
         disk |-> [d EXCEPT !.storage = written.file],
         vault |-> [v EXCEPT !.records = records]]

\* add_record returns (): it ends, or the expect on the write panics.
Vault_add_record(d, v, record, env) ==
    LET records == Append(v.records, record)
        json == to_string(records)
        written == write_string(d.dir, d.storage, json, v.record_storage.key,
                                Fill(env, "storage_nonce", env.nonce2), Io(env, "storage_create", "storage_write"))
    IN  [res |-> Expect(written.res, "Should have written record_storage properly"),
         disk |-> [d EXCEPT !.storage = written.file],
         vault |-> [v EXCEPT !.records = records]]

(***************************************************************************)
(* The inputs of the model.                                                *)
(***************************************************************************)
Instances == {"A", "B"}

\* "pw1", "pw2" and "pw23113", each with the value DefaultHasher gives it
\* (SipHash-1-3 with zero keys over the text and the 0xff that str::hash
\* appends), as 16-bit limbs.  The hash of the third, truncated to 32 bits, is
\* 1616300000, a multiple of ITERATIONS_EXTENSION_COUNT.
Passphrases ==
    { [text |-> <<112, 119, 49>>,
       hash |-> [w3 |-> 49254, w2 |-> 5942, w1 |-> 5921, w0 |-> 35408]],
      [text |-> <<112, 119, 50>>,
       hash |-> [w3 |-> 3776, w2 |-> 50338, w1 |-> 23068, w0 |-> 14732]],
      [text |-> <<112, 119, 50, 51, 49, 49, 51>>,
       hash |-> [w3 |-> 11296, w2 |-> 20824, w1 |-> 24662, w0 |-> 51168]] }

NoPass == [text |-> <<>>, hash |-> [w3 |-> 0, w2 |-> 0, w1 |-> 0, w0 |-> 0]]

\* r1 and r3 share a uuid, r1 and r2 share a name.
RecordSamples ==
    { Record(1, 1, 1, 1), Record(2, 1, 2, 2), Record(1, 2, 1, 2) }

NoRecord == Record(0, 0, 0, 0)

SaltSamples == { [i \in 1..SALT_LEN |-> (7 * i) % ByteMod] }

KeySamples == { [i \in 1..KEY_LEN |-> (200 + i) % ByteMod] }

NonceSamples == { [i \in 1..NONCE_LEN |-> i], [i \in 1..NONCE_LEN |-> 2 * i] }

CreateFaults ==
    {"none", "mkdir", "salt_rng", "config_create", "config_write", "key_rng",
     "key_nonce", "key_create", "key_write", "storage_nonce", "storage_create",
     "storage_write"}

WriteFaults == {"none", "storage_nonce", "storage_create", "storage_write"}

FirstNonce == [i \in 1..NONCE_LEN |-> i]

\* The environments of a call: without a fault every draw of the random
\* source is free; with a fault the draws are the first samples.
Envs(faults) ==
    [fault : faults \cap {"none"}, salt : SaltSamples, key : KeySamples,
     nonce1 : NonceSamples, nonce2 : NonceSamples]
    \cup
    [fault : faults \ {"none"}, salt : SaltSamples, key : KeySamples,
     nonce1 : {FirstNonce}, nonce2 : {FirstNonce}]

QuietEnv ==
    [fault |-> "none", salt |-> [i \in 1..SALT_LEN |-> (7 * i) % ByteMod],
     key |-> [i \in 1..KEY_LEN |-> (200 + i) % ByteMod],
     nonce1 |-> FirstNonce, nonce2 |-> FirstNonce]

\* What another writer of the storage file may put there under the data key:
\* bytes that are no UTF-8, and text that is no JSON list of records.
ForeignPayloads == { <<255>>, <<123>> }

TamperDeltas == {1, 255}

Exists(d) ==
    [dir |-> d.dir, config |-> d.config.exists, key |-> d.key.exists,
     storage |-> d.storage.exists]

Returned(op, password, record, fault, d, res) ==
    [op |-> op, pass |-> password, rec |-> record, fault |-> fault,
     pre |-> Exists(d), tag |-> res.tag, err |-> res.err]

(***************************************************************************)
(* The state machine.                                                      *)
(***************************************************************************)
Init ==
    /\ disk = [dir |-> FALSE, config |-> NoFile, key |-> NoFile, storage |-> NoFile]
    /\ vault = [i \in Instances |-> NoVault]
    /\ result = Returned("none", NoPass, NoRecord, "none", disk, Ok(<<>>))
    /\ hist = [createdWith |-> NoPass, storageBy |-> "none", keyBy |-> "none",
               lastAdded |-> NoRecord, interfered |-> FALSE, added |-> <<>>]

\* let v = Vault::create(password, path)
Create(i, password, env) ==
    /\ ~vault[i].open
    /\ disk.dir => env = QuietEnv    \* the call ends before it asks the system anything
    /\ LET c == Vault_create(disk, password, env)
       IN  /\ disk' = c.disk
           /\ vault' = [vault EXCEPT ![i] = IF c.res.tag = "Ok" THEN c.res.val ELSE NoVault]
           /\ result' = Returned("create", password, NoRecord, env.fault, disk, c.res)
           /\ hist' = [hist EXCEPT
                  !.createdWith = IF c.res.tag = "Ok" THEN password ELSE @,
                  !.added = IF c.res.tag = "Ok" THEN <<>> ELSE @,
                  !.storageBy = IF c.disk.storage # disk.storage
                                THEN (IF c.res.tag = "Ok" THEN "create" ELSE "failed") ELSE @,
                  !.keyBy = IF c.disk.key # disk.key
                            THEN (IF c.disk.key.bytes # <<>> THEN "create" ELSE "failed") ELSE @]

\* let v = Vault::open(password, path)
Open(i, password) ==
    /\ ~vault[i].open
    /\ LET o == Vault_open(disk, password)
       IN  /\ disk' = o.disk
           /\ vault' = [vault EXCEPT ![i] = IF o.res.tag = "Ok" THEN o.res.val ELSE NoVault]
           /\ result' = Returned("open", password, NoRecord, "none", disk, o.res)
           /\ UNCHANGED hist

\* v.add_record(record); a panic unwinds through the owner of the vault.
AddRecord(i, record, env) ==
    /\ vault[i].open
    /\ Len(vault[i].records) < MaxRecords
    /\ LET a == Vault_add_record(disk, vault[i], record, env)
       IN  /\ disk' = a.disk
           /\ vault' = [vault EXCEPT ![i] = IF a.res.tag = "Ok" THEN a.vault ELSE NoVault]
           /\ result' = Returned("add_record", NoPass, record, env.fault, disk, a.res)
           /\ hist' = [hist EXCEPT
                  !.storageBy = IF a.res.tag = "Ok" THEN "add"
                                ELSE IF a.disk.storage # disk.storage THEN "failed" ELSE @,
                  !.lastAdded = IF a.res.tag = "Ok" THEN record ELSE @,
                  !.added = IF a.res.tag = "Ok" THEN Append(@, record) ELSE @]

\* The vault goes out of scope.
DropVault(i) ==
    /\ vault[i].open
    /\ vault' = [vault EXCEPT ![i] = NoVault]
    /\ result' = Returned("drop", NoPass, NoRecord, "none", disk, Ok(<<>>))
    /\ UNCHANGED <<disk, hist>>

\* The environment: someone removes a file of the vault directory.
RemoveStorage ==
    /\ disk.dir /\ disk.storage.exists
    /\ ~hist.interfered
    /\ disk' = [disk EXCEPT !.storage = NoFile]
    /\ result' = Returned("remove_storage", NoPass, NoRecord, "none", disk, Ok(<<>>))
    /\ hist' = [hist EXCEPT !.storageBy = "removed", !.interfered = TRUE]
    /\ UNCHANGED vault

RemoveKey ==
    /\ disk.dir /\ disk.key.exists
    /\ ~hist.interfered
    /\ disk' = [disk EXCEPT !.key = NoFile]
    /\ result' = Returned("remove_key", NoPass, NoRecord, "none", disk, Ok(<<>>))
    /\ hist' = [hist EXCEPT !.keyBy = "removed", !.interfered = TRUE]
    /\ UNCHANGED vault

\* The environment: one byte of the written storage file is changed.
TamperStorage(pos, delta) ==
    /\ disk.dir /\ disk.storage.exists
    /\ hist.storageBy \in {"create", "add"}
    /\ ~hist.interfered
    /\ \A i \in Instances : ~vault[i].open
    /\ pos \in 1..Len(disk.storage.bytes)
    /\ disk' = [disk EXCEPT !.storage.bytes[pos] = (@ + delta) % ByteMod]
    /\ result' = Returned("tamper_storage", NoPass, NoRecord, "none", disk, Ok(<<>>))
    /\ hist' = [hist EXCEPT !.storageBy = "tampered", !.interfered = TRUE]
    /\ UNCHANGED vault

\* The environment: another holder of the data key writes the storage file
\* through EncryptedStorage::write.
ForeignWrite(i, payload, env) ==
    /\ vault[i].open
    /\ hist.storageBy \in {"create", "add"}
    /\ ~hist.interfered
    /\ LET w == write_encrypted(disk.dir, disk.storage, payload, vault[i].record_storage.key,
                                Fill(env, "storage_nonce", env.nonce2),
                                Io(env, "storage_create", "storage_write"))
       IN  /\ disk' = [disk EXCEPT !.storage = w.file]
           /\ result' = Returned("foreign_write", NoPass, NoRecord, env.fault, disk, w.res)
    /\ vault' = [vault EXCEPT ![i] = NoVault]
    /\ hist' = [hist EXCEPT !.storageBy = "foreign", !.interfered = TRUE]

Session(i) ==
    \/ \E password \in Passphrases, env \in Envs(CreateFaults) : Create(i, password, env)
    \/ \E password \in Passphrases : Open(i, password)
    \/ \E record \in RecordSamples, env \in Envs(WriteFaults) : AddRecord(i, record, env)
    \/ DropVault(i)
    \/ \E payload \in ForeignPayloads, env \in Envs({"none"}) : ForeignWrite(i, payload, env)

Environment ==
    \/ RemoveStorage
    \/ RemoveKey

\* One caller holding one Vault at a time, in an environment that may fail a
\* step of a call and may interfere with the files once.
Next == Session("A") \/ Environment

Spec == Init /\ [][Next]_vars

\* The same caller, where the system fails no step and one byte of the
\* storage file may be changed.
QuietSession(i) ==
    \/ \E password \in Passphrases : Create(i, password, QuietEnv)
    \/ \E password \in Passphrases : Open(i, password)
    \/ \E record \in RecordSamples, env \in Envs({"none"}) : AddRecord(i, record, env)
    \/ DropVault(i)

Tamper ==
    \E pos \in 1..Len(disk.storage.bytes), delta \in TamperDeltas : TamperStorage(pos, delta)

NextTamper == QuietSession("A") \/ Tamper

SpecTamper == Init /\ [][NextTamper]_vars

\* Two callers of one vault directory who know its passphrase, each holding a
\* Vault of its own; nothing in Vault::open or add_record locks the files.
SharedPassphrase == CHOOSE p \in Passphrases : p.text = <<112, 119, 49>>

SharedRecords == { Record(1, 1, 1, 1), Record(2, 1, 2, 2) }

SharedSession(i) ==
    \/ Create(i, SharedPassphrase, QuietEnv)
    \/ Open(i, SharedPassphrase)
    \/ \E record \in SharedRecords : AddRecord(i, record, QuietEnv)
    \/ DropVault(i)

NextShared == \E i \in Instances : SharedSession(i)

SpecShared == Init /\ [][NextShared]_vars

(***************************************************************************)
(* storage.rs on its own: one EncryptedStorage path that is written and    *)
(* read with keys, plaintexts and nonces of the caller's choice.  Here     *)
(* disk.storage is the file at the path, and hist remembers the last       *)
(* completed write and the one it replaced.                                *)
(***************************************************************************)
StorageKey == [i \in 1..KEY_LEN |-> (200 + i) % ByteMod]

\* Three keys of the right length: two that differ in one byte, one that
\* differs in every byte.
StorageKeys ==
    { StorageKey,
      [StorageKey EXCEPT ![KEY_LEN] = 0],
      [i \in 1..KEY_LEN |-> (3 * i) % ByteMod] }

\* Keys one byte short and one byte long.
BadKeys == { Take(StorageKey, KEY_LEN - 1), StorageKey \o <<1>> }

\* The empty text, bytes that are no UTF-8, and the JSON text "[]".
Plaintexts == { <<>>, <<255, 0, 128>>, <<91, 93>> }

\* The file lengths below a nonce and a tag.
ShortLengths == 0..(NONCE_LEN + TAG_LEN - 1)

\* What the system does during one write: it yields one of the nonces, or it
\* fails one step.
StorageEnvs ==
    { [QuietEnv EXCEPT !.nonce2 = n] : n \in NonceSamples }
    \cup { [QuietEnv EXCEPT !.fault = f] : f \in WriteFaults \ {"none"} }

\* hist.again says whether the last completed write wrote the key and the
\* plaintext of the completed write before it, and with which nonce;
\* hist.changed says whether it changed the bytes of the file.
NoWrite ==
    [origin |-> "none", key |-> <<>>, buf |-> <<>>, nonce |-> <<>>,
     again |-> "no", changed |-> FALSE]

StorageReturned(op, key, buf, fault, d, res) ==
    [op |-> op, key |-> key, buf |-> buf, fault |-> fault,
     pre |-> Exists(d), tag |-> res.tag, err |-> res.err, val |-> res.val]

InitStorage ==
    /\ disk = [dir |-> TRUE, config |-> NoFile, key |-> NoFile, storage |-> NoFile]
    /\ vault = [i \in Instances |-> NoVault]
    /\ result = StorageReturned("none", <<>>, <<>>, "none", disk, Ok(<<>>))
    /\ hist = NoWrite

\* EncryptedStorage::new(path, key).write(buf)
EncryptedStorage_write(key, buf, env) ==
    LET w == write_encrypted(disk.dir, disk.storage, buf, key,
                             Fill(env, "storage_nonce", env.nonce2),
                             Io(env, "storage_create", "storage_write"))
        again == IF hist.origin # "write" \/ hist.key # key \/ hist.buf # buf THEN "no"
                 ELSE IF hist.nonce = env.nonce2 THEN "same_nonce"
                 ELSE "new_nonce"
    IN  /\ disk' = [disk EXCEPT !.storage = w.file]
        /\ result' = StorageReturned("write", key, buf, env.fault, disk, w.res)
        /\ hist' = IF w.res.tag = "Ok"
                   THEN [origin |-> "write", key |-> key, buf |-> buf,
                         nonce |-> env.nonce2, again |-> again,
                         changed |-> w.file # disk.storage]
                   ELSE IF w.file # disk.storage
                   THEN [NoWrite EXCEPT !.origin = "failed"]
                   ELSE hist
        /\ UNCHANGED vault

\* EncryptedStorage::new(path, key).read(&mut buffer)
EncryptedStorage_read(key) ==
    /\ result' = StorageReturned("read", key, <<>>, "none", disk,
                                 read_encrypted(disk.dir, disk.storage, key))
    /\ UNCHANGED <<disk, vault, hist>>

\* EncryptedStorage::new(path, key).read_string()
EncryptedStorage_read_string(key) ==
    /\ result' = StorageReturned("read_string", key, <<>>, "none", disk,
                                 read_string(disk.dir, disk.storage, key))
    /\ UNCHANGED <<disk, vault, hist>>

\* EncryptedStorage::new(path, key).read_object::<Vec<Record>>()
EncryptedStorage_read_object(key) ==
    /\ result' = StorageReturned("read_object", key, <<>>, "none", disk,
                                 read_object(disk.dir, disk.storage, key))
    /\ UNCHANGED <<disk, vault, hist>>

\* PlaintextStorage::new(path).write(buf)
PlaintextStorage_write(buf, env) ==
    LET w == write_plaintext(disk.dir, disk.storage, buf,
                             Io(env, "storage_create", "storage_write"))
    IN  /\ disk' = [disk EXCEPT !.storage = w.file]
        /\ result' = StorageReturned("plain_write", <<>>, buf, env.fault, disk, w.res)
        /\ hist' = IF w.res.tag = "Ok"
                   THEN [NoWrite EXCEPT !.origin = "plain", !.buf = buf]
                   ELSE IF w.file # disk.storage
                   THEN [NoWrite EXCEPT !.origin = "failed"]
                   ELSE hist
        /\ UNCHANGED vault

\* PlaintextStorage::new(path).read_string()
PlaintextStorage_read_string_call ==
    /\ result' = StorageReturned("plain_read_string", <<>>, <<>>, "none", disk,
                                 PlaintextStorage_read_string(disk.dir, disk.storage))
    /\ UNCHANGED <<disk, vault, hist>>

\* PlaintextStorage::new(path).read_object::<Vec<Record>>()
PlaintextStorage_read_object_call ==
    /\ result' = StorageReturned("plain_read_object", <<>>, <<>>, "none", disk,
                                 PlaintextStorage_read_object(disk.dir, disk.storage))
    /\ UNCHANGED <<disk, vault, hist>>

\* The environment: the path holds a file of len bytes that no write sealed.
ShortFile(len) ==
    /\ hist.origin = "none" /\ ~disk.storage.exists
    /\ disk' = [disk EXCEPT !.storage = FileOf([i \in 1..len |-> (31 * i) % ByteMod])]
    /\ result' = StorageReturned("short_file", <<>>, <<>>, "none", disk, Ok(<<>>))
    /\ hist' = [hist EXCEPT !.origin = "planted"]
    /\ UNCHANGED vault

NextStorage ==
    \/ \E key \in StorageKeys \cup BadKeys, buf \in Plaintexts, env \in StorageEnvs :
           EncryptedStorage_write(key, buf, env)
    \/ \E key \in StorageKeys \cup BadKeys : EncryptedStorage_read(key)
    \/ \E key \in StorageKeys : EncryptedStorage_read_string(key)
    \/ \E key \in StorageKeys : EncryptedStorage_read_object(key)
    \/ \E buf \in Plaintexts, env \in {QuietEnv} : PlaintextStorage_write(buf, env)
    \/ PlaintextStorage_read_string_call
    \/ PlaintextStorage_read_object_call
    \/ \E len \in ShortLengths : ShortFile(len)

SpecStorage == InitStorage /\ [][NextStorage]_vars

\* encrypted_storage::EncryptedStorage::new(path, key).write(buf)
encrypted_storage_EncryptedStorage_write(key, buf, env) ==
    LET w == encrypted_storage_write_encrypted(disk.dir, disk.storage, buf, key,
                                               Fill(env, "storage_nonce", env.nonce2),
                                               Io(env, "storage_create", "storage_write"))
    IN  /\ disk' = [disk EXCEPT !.storage = w.file]
        /\ result' = StorageReturned("encrypted_storage_write", key, buf, env.fault, disk, w.res)
        /\ hist' = IF w.res.tag = "Ok"
                   THEN [NoWrite EXCEPT !.origin = "write", !.key = key, !.buf = buf,
                                        !.nonce = env.nonce2]
                   ELSE IF w.file # disk.storage
                   THEN [NoWrite EXCEPT !.origin = "failed"]
                   ELSE hist
        /\ UNCHANGED vault

\* encrypted_storage::EncryptedStorage::new(path, key).read(&mut buffer)
encrypted_storage_EncryptedStorage_read(key) ==
    /\ result' = StorageReturned("encrypted_storage_read", key, <<>>, "none", disk,
                                 encrypted_storage_read_encrypted(disk.dir, disk.storage, key))
    /\ UNCHANGED <<disk, vault, hist>>

\* The two EncryptedStorage types of the crate on one path: the one of
\* storage.rs and the one of encrypted_storage.rs.
NextEncryptedStorage ==
    \/ \E key \in {StorageKey} \cup BadKeys, buf \in Plaintexts, env \in StorageEnvs :
           EncryptedStorage_write(key, buf, env)
    \/ \E key \in {StorageKey} \cup BadKeys : EncryptedStorage_read(key)
    \/ \E key \in {StorageKey} \cup BadKeys, buf \in Plaintexts, env \in StorageEnvs :
           encrypted_storage_EncryptedStorage_write(key, buf, env)
    \/ \E key \in {StorageKey} \cup BadKeys : encrypted_storage_EncryptedStorage_read(key)

SpecEncryptedStorage == InitStorage /\ [][NextEncryptedStorage]_vars

(***************************************************************************)
(* The functions of vault.rs and keys.rs that depend on their arguments    *)
(* and the process environment only: determine_vault_path and iterations.  *)
(* A string is the sequence of its bytes; an Option is the empty sequence  *)
(* (None) or a sequence of one element (Some).                             *)
(***************************************************************************)
\* "/.ironvault/"
DEFAULT_DATABASE_PATH == <<47, 46, 105, 114, 111, 110, 118, 97, 117, 108, 116, 47>>

None == <<>>

Some(x) == <<x>>

\* env::var(ENVIRONMENT_KEY): the value, or VarError when the variable is not
\* set or holds no Unicode.
VarError(kind) == [kind |-> "VarError", cause |-> kind]

\* path: Option<&str>; environment_result: what env::var(ENVIRONMENT_KEY)
\* returns; home_dir: what env::home_dir() returns.
determine_vault_path(path, environment_result, home_dir) ==
    IF path # None THEN Ok(path[1])
    ELSE IF environment_result.tag = "Ok" THEN Ok(environment_result.val)
    ELSE IF home_dir = None THEN Panic("Failed to find the home directory")
    ELSE Ok(home_dir[1] \o DEFAULT_DATABASE_PATH)

\* None, "x" and ""
PathArguments == { None, Some(<<120>>), Some(<<>>) }

\* IRONVAULT_DATABASE not set, not Unicode, set to "" and set to "e"
EnvironmentResults ==
    { Err(VarError("NotPresent")), Err(VarError("NotUnicode")), Ok(<<>>), Ok(<<101>>) }

\* no home directory, "/h" and "/r"
HomeDirs == { None, Some(<<47, 104>>), Some(<<47, 114>>) }

\* 64-bit hash values around the multiples of ITERATIONS_EXTENSION_COUNT and
\* at the ends of the range, as limbs.
HashSamples ==
    [w3 : {0, 65535}, w2 : {0, 65535}, w1 : {0, 1, 24662, 65535},
     w0 : {0, 1, 9999, 10000, 51168, 65535}]

\* The passphrases of the model, and for each sample hash a passphrase "?"
\* of unknown text that has it.
HashedPassphrases ==
    Passphrases \cup { [text |-> <<63>>, hash |-> h] : h \in HashSamples }

FunctionReturned(op, args, res) ==
    [op |-> op, args |-> args, tag |-> res.tag, err |-> res.err, val |-> res.val]

\* hist.repeat says that the call before the last was a call of iterations
\* with the same passphrase, and hist.tag and hist.val how that call ended.
NoRepeat == [repeat |-> FALSE, tag |-> "Ok", val |-> <<>>]

InitFunctions ==
    /\ disk = [dir |-> FALSE, config |-> NoFile, key |-> NoFile, storage |-> NoFile]
    /\ vault = [i \in Instances |-> NoVault]
    /\ result = FunctionReturned("none", <<>>, Ok(<<>>))
    /\ hist = NoRepeat

DetermineVaultPath(path, environment_result, home_dir) ==
    /\ result' = FunctionReturned("determine_vault_path",
                                  [path |-> path, env |-> environment_result, home |-> home_dir],
                                  determine_vault_path(path, environment_result, home_dir))
    /\ hist' = NoRepeat
    /\ UNCHANGED <<disk, vault>>

Iterations(password) ==
    /\ result' = FunctionReturned("iterations", [password |-> password],
                                  iterations(password))
    /\ hist' = IF result.op = "iterations" /\ result.args.password = password
               THEN [repeat |-> TRUE, tag |-> result.tag, val |-> result.val]
               ELSE NoRepeat
    /\ UNCHANGED <<disk, vault>>

NextFunctions ==
    \/ \E path \in PathArguments, environment_result \in EnvironmentResults,
          home_dir \in HomeDirs :
           DetermineVaultPath(path, environment_result, home_dir)
    \/ \E password \in HashedPassphrases : Iterations(password)

SpecFunctions == InitFunctions /\ [][NextFunctions]_vars

(***************************************************************************)
(* Properties.                                                             *)
(***************************************************************************)
Untouched == hist.keyBy = "create" /\ ~hist.interfered

DecryptionError == VaultStorageError(StorageError("DecryptionError"))

\* C1: for every passphrase, create on a path that does not exist succeeds
\* when the system fails no step, and open with the same passphrase right
\* after it succeeds with an empty record set.
C1_CreateThenOpenIsEmpty ==
    /\ (result.op = "create" /\ ~result.pre.dir /\ result.fault = "none")
           => result.tag = "Ok"
    /\ (result.op = "open" /\ hist.storageBy = "create" /\ Untouched
            /\ result.pass = hist.createdWith)
           => (result.tag = "Ok" /\ vault["A"].open /\ fetch_records(vault["A"]) = <<>>)

\* C2: after a completed add_record(r), a fresh open with the passphrase of
\* the vault succeeds and its get_record_by_uuid(r.uuid) is r.
C2_ReopenFindsAddedRecord ==
    (result.op = "open" /\ hist.storageBy = "add" /\ Untouched
        /\ result.pass = hist.createdWith)
    => /\ result.tag = "Ok"
       /\ get_record_by_uuid(vault["A"], hist.lastAdded.uuid) = <<hist.lastAdded>>

\* C3: open with a passphrase other than the creation passphrase returns
\* the error VaultStorageError(DecryptionError).  (Stated for the
\* passphrases that pass the assertion of iterations.)
C3_WrongPassphraseIsDecryptionError ==
    (result.op = "open" /\ hist.createdWith # NoPass /\ Untouched
        /\ hist.storageBy \in {"create", "add"}
        /\ result.pass.text # hist.createdWith.text
        /\ iterations(result.pass).tag = "Ok")
    => (result.tag = "Err" /\ result.err = DecryptionError)

\* C4: open with the right passphrase after one byte of the written storage
\* file was changed returns the error VaultStorageError(DecryptionError).
C4_TamperedStorageIsDecryptionError ==
    (result.op = "open" /\ hist.storageBy = "tampered" /\ hist.keyBy = "create"
        /\ result.pass = hist.createdWith)
    => (result.tag = "Err" /\ result.err = DecryptionError)

\* C5: create on a path that exists returns VaultAlreadyExists and leaves the
\* directory and its files as they were.
C5_CreateOnExistingChangesNothing ==
    [][(result'.op = "create" /\ disk.dir)
         => (result'.tag = "Err" /\ result'.err = VaultAlreadyExists /\ disk' = disk)]_vars

C5_Witness ==
    /\ result.op = "create" /\ result.tag = "Err" /\ result.err = VaultAlreadyExists
    /\ result.pre.dir /\ result.pre.config /\ result.pre.key /\ result.pre.storage
    /\ disk.config.exists /\ disk.key.exists /\ disk.storage.exists

\* C6: no two records of an open vault's collection share a uuid.
C6_UuidsAreUnique ==
    \A i \in Instances :
        vault[i].open =>
            \A a, b \in 1..Len(vault[i].records) :
                a # b => vault[i].records[a].uuid # vault[i].records[b].uuid

\* C7: add_record ends by returning: with success, or with the storage error
\* of the failed write of the records file.
C7_AddRecordReturnsItsError ==
    result.op = "add_record" =>
        \/ result.tag = "Ok" /\ result.fault = "none"
        \/ result.tag = "Err" /\ result.err.kind = "VaultStorageError"

\* C8: add_record on a vault whose storage file was removed after open ends
\* with FileError and not with success.
C8_RemovedStorageIsFileError ==
    (result.op = "add_record" /\ ~result.pre.storage /\ result.fault = "none")
    => (result.tag = "Err" /\ result.err = VaultStorageError(StorageError("FileError")))

\* C9: open on a directory that does not exist returns the error that carries
\* the file error of the config read, and creates neither the directory nor a
\* file in it.
C9_OpenMissingVaultIsFileError ==
    (result.op = "open" /\ ~result.pre.dir)
    => /\ result.tag = "Err" /\ result.err = ConfigurationFileError("io")
       /\ ~disk.dir /\ ~disk.config.exists /\ ~disk.key.exists /\ ~disk.storage.exists
       /\ ~vault["A"].open

C9_Witness ==
    result.op = "open" /\ ~result.pre.dir /\ result.tag = "Err" /\ ~disk.dir

\* C10: every create and every open ends with an open Vault returned, or with
\* an error value returned and no Vault.  (Stated for the passphrases that
\* pass the assertion of iterations.)
C10_ConstructorReturnsVaultOrError ==
    (result.op \in {"create", "open"} /\ iterations(result.pass).tag = "Ok") =>
        \/ result.tag = "Ok" /\ vault["A"].open
        \/ result.tag = "Err" /\ ~vault["A"].open

\* C11: after a create call, completed or failed part-way, the vault directory
\* is absent or holds all three files config, key and storage.  (Stated for
\* the passphrases that pass the assertion of iterations, with no file
\* removed or written by anyone else.)
C11_DirectoryIsAbsentOrComplete ==
    (result.op = "create" /\ iterations(result.pass).tag = "Ok" /\ ~hist.interfered)
    => \/ ~disk.dir
       \/ disk.config.exists /\ disk.key.exists /\ disk.storage.exists

\* C12: a config file and a key file that exist are left byte for byte as
\* they are by every later create, open, add_record and drop of the vault;
\* open changes nothing on disk and add_record changes the storage file only.
C12_ConfigAndKeyAreImmutable ==
    [][result'.op \in {"create", "open", "add_record", "drop"}
         => /\ disk.config.exists => disk'.config = disk.config
            /\ disk.key.exists => disk'.key = disk.key
            /\ result'.op \in {"open", "drop"} => disk' = disk
            /\ result'.op = "add_record" => disk' = [disk EXCEPT !.storage = disk'.storage]]_vars

C12_Witness ==
    /\ result.op = "add_record" /\ result.tag = "Ok"
    /\ hist.keyBy = "create" /\ hist.storageBy = "add"
    /\ disk.config.exists /\ disk.key.exists /\ Len(disk.key.bytes) = NONCE_LEN + KEY_LEN + TAG_LEN
    /\ Len(vault["A"].records) = MaxRecords

\* C13: a read with the key of the last completed write returns exactly the
\* bytes that were written, for every plaintext and every 32-byte key.
C13_WriteThenReadReturnsPlaintext ==
    (result.op = "read" /\ hist.origin = "write" /\ result.key = hist.key)
    => (result.tag = "Ok" /\ result.val = hist.buf)

C13_Witness ==
    /\ result.op = "read" /\ hist.origin = "write" /\ result.key = hist.key
    /\ result.tag = "Ok" /\ result.val = <<255, 0, 128>>

\* C14: a read with a 32-byte key other than the key of the last completed
\* write returns DecryptionError and no plaintext.
C14_OtherKeyIsDecryptionError ==
    (result.op = "read" /\ hist.origin = "write"
        /\ Len(result.key) = KEY_LEN /\ result.key # hist.key)
    => (result.tag = "Err" /\ result.err = StorageError("DecryptionError")
        /\ result.val = <<>>)

C14_Witness ==
    /\ result.op = "read" /\ hist.origin = "write"
    /\ hist.key = StorageKey /\ result.key = [StorageKey EXCEPT ![KEY_LEN] = 0]
    /\ result.tag = "Err" /\ hist.buf # <<>>

\* C15: a read of a file of 0 to 27 bytes returns the error value
\* DecryptionError.
C15_ShortFileIsDecryptionError ==
    (result.op = "read" /\ hist.origin = "planted" /\ Len(result.key) = KEY_LEN)
    => (result.tag = "Err" /\ result.err = StorageError("DecryptionError"))

C17_FileIsNonceCiphertextTag ==
    (result.op = "write" /\ result.tag = "Ok")
    => LET file == disk.storage.bytes
           N == Len(result.buf)
       IN  /\ Len(file) = N + 28
           /\ Take(file, 12) = hist.nonce
           /\ Drop(file, 12) = seal_in_place(result.key, hist.nonce,
                                              result.buf \o Zeros(16), 16).val
           /\ Len(Drop(file, 12 + N)) = 16
           /\ open_data(file, result.key)
                  = open_in_place(result.key, hist.nonce, 12, file)

C17_Witness ==
    /\ result.op = "write" /\ result.tag = "Ok" /\ result.buf = <<255, 0, 128>>
    /\ Len(disk.storage.bytes) = 31

\* C18, as claimed: a write and a read with a key that is not 32 bytes long
\* return KeyLengthError.
C18_WrongKeyLengthIsKeyLengthError ==
    [][(result'.op \in {"write", "read"} /\ Len(result'.key) # KEY_LEN)
         => (result'.tag = "Err" /\ result'.err = StorageError("KeyLengthError"))]_vars

\* C18, as the code has it: a write with a key that is not 32 bytes long, and
\* a read with such a key of a file that exists (whatever it holds), return
\* KeyLengthError, yield no plaintext and leave the file as it was; a read
\* of a file that does not exist returns FileError whatever the key.
C18_WrongKeyLengthAfterTheFileIsRead ==
    [][(result'.op \in {"write", "read"} /\ Len(result'.key) # KEY_LEN)
         => /\ result'.tag = "Err" /\ result'.val = <<>> /\ disk' = disk
            /\ result'.err = IF result'.op = "read" /\ ~disk.storage.exists
                              THEN StorageError("FileError")
                              ELSE StorageError("KeyLengthError")]_vars

C18_Witness ==
    /\ result.op = "write" /\ Len(result.key) = KEY_LEN + 1
    /\ result.tag = "Err" /\ result.err = StorageError("KeyLengthError")
    /\ hist.origin = "write" /\ disk.storage.exists

\* C19: determine_vault_path returns the path argument when there is one,
\* else the value of IRONVAULT_DATABASE when it is set and not empty, else
\* the home directory followed by "/.ironvault/".  (Stated for a process
\* that has a home directory.)
C19_PathPrecedence ==
    (result.op = "determine_vault_path" /\ result.args.home # None)
    => /\ result.tag = "Ok"
       /\ result.val =
              IF result.args.path # None THEN result.args.path[1]
              ELSE IF result.args.env.tag = "Ok" /\ result.args.env.val # <<>>
                   THEN result.args.env.val
              ELSE result.args.home[1] \o DEFAULT_DATABASE_PATH

\* C20: iterations returns a count above 100000 and derive_key does not
\* abort.  (Stated for the three passphrases "pw1", "pw2" and "pw23113".)
C20_IterationsAboveBase ==
    (result.op = "iterations" /\ result.args.password \in Passphrases)
    => /\ result.tag = "Ok" /\ result.val > 100000
       /\ \A salt \in SaltSamples : derive_key(salt, result.args.password).tag = "Ok"

C22_QueriesReturnTheMatches ==
    vault["A"].open
    => LET v == vault["A"]
           held == 1..Len(v.records)
       IN  /\ \A n \in 0..3 :
                  LET got == get_records_by_name(v, n)
                      named == {k \in held : v.records[k].name = n}
                  IN  /\ Len(got) = Cardinality(named)
                      /\ \A j \in 1..Len(got) : got[j].name = n
                      /\ \A k \in named : \E j \in 1..Len(got) : got[j] = v.records[k]
           /\ \A u \in 0..3 :
                  LET got == get_record_by_uuid(v, u)
                  IN  IF \E k \in held : v.records[k].uuid = u
                      THEN /\ Len(got) = 1 /\ got[1].uuid = u
                           /\ \E k \in held : v.records[k] = got[1]
                      ELSE got = None

C22_Witness ==
    /\ vault["A"].open
    /\ vault["A"].records = <<Record(1, 1, 1, 1), Record(2, 1, 2, 2)>>
    /\ Len(get_records_by_name(vault["A"], 1)) = 2
    /\ get_record_by_uuid(vault["A"], 2) = Some(Record(2, 1, 2, 2))

\* Does the byte sequence hold the key as a run of consecutive bytes?
Contains(bytes, key) ==
    \E o \in 0..(Len(bytes) - Len(key)) : SubSeq(bytes, o + 1, o + Len(key)) = key

\* C23: no file of the vault directory holds a data-encryption key as plain
\* bytes, and the key file that create wrote opens, under the key derived
\* from the passphrase, to the data-encryption key of the vault.
C23_DataKeyIsNeverPlainOnDisk ==
    /\ \A k \in KeySamples :
          /\ ~Contains(disk.config.bytes, k)
          /\ ~Contains(disk.key.bytes, k)
          /\ ~Contains(disk.storage.bytes, k)
    /\ (vault["A"].open /\ hist.keyBy = "create")
          => /\ vault["A"].record_storage.key \in KeySamples
             /\ read_encrypted(disk.dir, disk.key, vault["A"].key_storage.key)
                    = Ok(vault["A"].record_storage.key)

C23_Witness ==
    /\ vault["A"].open /\ hist.keyBy = "create" /\ result.op = "open"
    /\ disk.config.exists /\ disk.storage.exists
    /\ Len(disk.key.bytes) = NONCE_LEN + KEY_LEN + TAG_LEN
    /\ Len(vault["A"].records) > 0

\* The error create returns when the system fails the step.
StepError(fault) ==
    CASE fault = "salt_rng" -> VaultKeyError(KeyError("SaltGenerationError"))
      [] fault \in {"config_create", "config_write"} -> ConfigurationFileError("io")
      [] fault = "key_rng" -> VaultKeyError(KeyError("KeyGenerationError"))
      [] fault \in {"key_nonce", "storage_nonce"}
            -> VaultStorageError(StorageError("NonceGenerationError"))
      [] OTHER -> VaultStorageError(StorageError("FileError"))

ExpectedText(op, buf) ==
    CASE buf = <<255, 0, 128>> -> [tag |-> "Err", kind |-> "StringError", val |-> <<>>]
      [] op = "string" -> [tag |-> "Ok", kind |-> "none", val |-> buf]
      [] buf = <<>> -> [tag |-> "Err", kind |-> "SerializationError", val |-> <<>>]
      [] OTHER -> [tag |-> "Ok", kind |-> "none", val |-> <<>>]

\* C25: for the encrypted and the plaintext storage, read_string returns
\* StringError for bytes that are no UTF-8 and the text otherwise, and
\* read_object returns StringError, SerializationError for a text that is no
\* JSON list of records, or the list; with another key than the key of the
\* write both return DecryptionError whatever the plaintext is.
C25_ReadStringAndReadObjectErrors ==
    LET got == [tag |-> result.tag, kind |-> result.err.kind, val |-> result.val]
        op  == IF result.op \in {"read_string", "plain_read_string"} THEN "string" ELSE "object"
    IN  /\ (result.op \in {"read_string", "read_object"} /\ hist.origin = "write")
              => IF result.key = hist.key
                 THEN got = ExpectedText(op, hist.buf)
                 ELSE got = [tag |-> "Err", kind |-> "DecryptionError", val |-> <<>>]
        /\ (result.op \in {"plain_read_string", "plain_read_object"} /\ hist.origin = "plain")
              => got = ExpectedText(op, hist.buf)

C25_Witness ==
    /\ result.op = "read_object" /\ hist.origin = "write" /\ result.key = hist.key
    /\ hist.buf = <<>> /\ result.err.kind = "SerializationError"

\* C26: with two instances on one directory, a completed add_record of an
\* instance leaves in the storage file the collection that instance held
\* before the call with the record at its end, and nothing of what the other
\* instance added meanwhile: a fresh open returns exactly that list.
C26_AddRecordWritesItsOwnCollection ==
    [][\A i \in Instances :
          (vault[i].open /\ vault'[i] # vault[i]
             /\ result'.op = "add_record" /\ result'.tag = "Ok")
          => LET fresh == Vault_open(disk', SharedPassphrase)
             IN  /\ fresh.res.tag = "Ok"
                 /\ fresh.res.val.records = Append(vault[i].records, result'.rec)]_vars

\* A added r1 and then B added r2, both calls completed: a fresh open returns
\* B's record alone.
C26_Witness ==
    /\ vault["A"].open /\ vault["A"].records = <<Record(1, 1, 1, 1)>>
    /\ vault["B"].open /\ vault["B"].records = <<Record(2, 1, 2, 2)>>
    /\ result.op = "add_record" /\ result.tag = "Ok" /\ result.rec = Record(2, 1, 2, 2)
    /\ Vault_open(disk, SharedPassphrase).res.val.records = <<Record(2, 1, 2, 2)>>

\* C27: create writes config, then key, then storage: as long as nobody
\* removed the key file, in every state, the states a failed step of create
\* leaves included, a storage file implies a key file and a key file implies
\* a config file.
C27_CreateWritesConfigThenKeyThenStorage ==
    hist.keyBy # "removed"
    => /\ disk.storage.exists => disk.key.exists
       /\ disk.key.exists => disk.config.exists

\* create failed on the nonce of the storage file: config and key are there,
\* storage is not.
C27_Witness ==
    /\ result.op = "create" /\ result.tag = "Err" /\ result.fault = "storage_nonce"
    /\ disk.config.exists /\ disk.key.exists /\ ~disk.storage.exists

\* C28: while one instance is open and nobody else touched the files, the
\* key file opens under the instance's passphrase key to the data key, and
\* the storage file opens under that data key to the serialization of the
\* records the instance holds: after create, after open and after every
\* completed add_record.
C28_StorageIsTheSerializedCollection ==
    \A i \in Instances :
        (vault[i].open /\ ~hist.interfered)
        => LET data_key == read_encrypted(disk.dir, disk.key, vault[i].key_storage.key)
               text == read_encrypted(disk.dir, disk.storage, data_key.val)
           IN  /\ data_key.tag = "Ok"
               /\ text.tag = "Ok"
               /\ text.val = to_string(vault[i].records)

C28_Witness ==
    /\ vault["A"].open /\ ~hist.interfered
    /\ result.op = "add_record" /\ result.tag = "Ok"
    /\ Len(vault["A"].records) = 2 /\ vault["A"].records[2] = result.rec
    /\ read_encrypted(disk.dir, disk.storage, vault["A"].record_storage.key).val
         = to_string(vault["A"].records)

\* C29: the collection grows only by appending: while nobody else touched
\* the files, fetch_records() of an open instance is the list of the records
\* of the completed add_record calls since the vault was created, in the
\* order of the calls, so its length is their number; this holds after a
\* reopen too.
C29_RecordsAreTheAddedOnesInOrder ==
    \A i \in Instances :
        (vault[i].open /\ ~hist.interfered) => fetch_records(vault[i]) = hist.added

\* Two different records added, the vault dropped and opened again.
C29_Witness ==
    /\ result.op = "open" /\ result.tag = "Ok" /\ vault["A"].open /\ ~hist.interfered
    /\ Len(hist.added) = 2 /\ hist.added[1] # hist.added[2]
    /\ fetch_records(vault["A"]) = hist.added

\* C30: an encrypted write that returns an error raised before the bytes are
\* written (the key length, the nonce, the creation of the file) leaves a
\* file that was at the path as it was.
C30_FailedWriteLeavesTheFile ==
    [][(/\ result'.op \in {"write", "encrypted_storage_write"}
        /\ result'.tag = "Err" /\ result'.fault # "storage_write"
        /\ disk.storage.exists)
       => disk'.storage = disk.storage]_vars

====
